---- MODULE Spec2Model ----
(***************************************************************************)
(* RehabFlow (src/src/rehab_flow/main.py): the five-stage outpatient flow   *)
(* get_user_input -> inquiry_assistance -> diagnosis_assistance ->          *)
(* treatment_plan_creation -> multiagents_report, its session state, the    *)
(* replies of the advisory model and the crews, and the operator's console  *)
(* input.  Texts are sequences of one-character strings; " " stands for any *)
(* whitespace character.                                                    *)
(***************************************************************************)
EXTENDS Integers, Sequences, FiniteSets, TLC

\* ------------------------------------------------------------------ bounds
\* number of pieces a fenced content string is built from
MaxPieces == 3
\* recorded diagnostic question/answer pairs the operator may add in a run
MaxDialectics == 1
\* calls to PossibilitiesEliminationCrew that are counted (the count saturates)
MaxCount == 3

\* ------------------------------------------------------------------- texts
\* the grave accent of a code fence (written "'": a TLA+ string cannot hold it)
BACKTICK == "'"
FENCE == <<BACKTICK, BACKTICK, BACKTICK>>
JSONTAG == <<"j", "s", "o", "n">>

IsSpace(ch) == ch = " "

\* t occurs in s at position i
HasAt(s, i, t) ==
    /\ i >= 1
    /\ i + Len(t) - 1 <= Len(s)
    /\ SubSeq(s, i, i + Len(t) - 1) = t

\* least position >= from where FENCE occurs in s, 0 when there is none
FirstFence(s, from) ==
    LET hits == {i \in from..Len(s) : HasAt(s, i, FENCE)}
    IN  IF hits = {} THEN 0 ELSE CHOOSE i \in hits : \A k \in hits : i <= k

\* position after the longest run of whitespace that starts at p (a greedy whitespace run)
SkipSpace(s, p) ==
    LET stops == {i \in p..(Len(s) + 1) : i = Len(s) + 1 \/ ~IsSpace(s[i])}
    IN  CHOOSE i \in stops : \A k \in stops : i <= k

\* str.strip(): leading and trailing whitespace removed
Strip(s) ==
    LET keep == {i \in 1..Len(s) : ~IsSpace(s[i])}
    IN  IF keep = {} THEN <<>>
        ELSE SubSeq(s, CHOOSE i \in keep : \A k \in keep : i <= k,
                       CHOOSE i \in keep : \A k \in keep : i >= k)

\* after the opening fence at i0: the optional json tag is taken greedily
AfterTag(s, p) == IF HasAt(s, p, JSONTAG) THEN p + Len(JSONTAG) ELSE p

\* re.search with DOTALL for: an opening fence, the optional tag, whitespace,
\* a lazy group of any characters, whitespace, a closing fence.  The value is
\* group 1 of the leftmost match, else response.strip()
FenceGroup(response, i0) ==
    LET g == SkipSpace(response, AfterTag(response, i0 + Len(FENCE)))
        ends == {e \in g..Len(response) : HasAt(response, SkipSpace(response, e), FENCE)}
        e == CHOOSE x \in ends : \A k \in ends : x <= k
    IN  SubSeq(response, g, e - 1)

clean_and_parse_json(response) ==
    LET i0 == FirstFence(response, 1)
    IN  IF i0 = 0 \/ FirstFence(response, i0 + Len(FENCE)) = 0
        THEN Strip(response)
        ELSE FenceGroup(response, i0)

\* json.loads on a text: surrounding whitespace is ignored; the text "{}" stands
\* for a serialized object (its members travel beside it), "[]" for an array.
\* MemberOpen str MemberClose is the text of an object with one member whose
\* value is the string str, which may hold any character but the quote.
OBJ == <<"{", "}">>
ARR == <<"[", "]">>
QUOTE == "\""
MemberOpen == <<"{", QUOTE, "k", QUOTE, ":", QUOTE>>
MemberClose == <<QUOTE, "}">>
IsBracketed(t, open, close) ==
    /\ Len(t) >= 2
    /\ t[1] = open
    /\ t[Len(t)] = close
    /\ \A i \in 2..(Len(t) - 1) : IsSpace(t[i])
IsStringObject(t) ==
    /\ Len(t) >= Len(MemberOpen) + Len(MemberClose)
    /\ HasAt(t, 1, MemberOpen)
    /\ HasAt(t, Len(t) - Len(MemberClose) + 1, MemberClose)
    /\ \A i \in (Len(MemberOpen) + 1)..(Len(t) - Len(MemberClose)) : t[i] # QUOTE
JsonKind(text) ==
    LET t == Strip(text)
    IN  IF IsBracketed(t, "{", "}") \/ IsStringObject(t) THEN "object"
        ELSE IF IsBracketed(t, "[", "]") THEN "array"
        ELSE "invalid"

\* str.lower() on the strings that occur
Lower(str) ==
    CASE str \in {"YES", "Yes"} -> "yes"
      [] str \in {"NO", "No"} -> "no"
      [] str = "Q" -> "q"
      [] str = "Professional" -> "professional"
      [] str = "Top-Expert" -> "top-expert"
      [] OTHER -> str

\* ------------------------------------------------------------ dictionaries
EmptyDict == [k \in {} |-> ""]
\* dict.get(key, default)
Get(d, key, default) == IF key \in DOMAIN d THEN d[key] ELSE default
\* d[key] = value
DictSet(d, key, value) == [k \in (DOMAIN d) \cup {key} |-> IF k = key THEN value ELSE d[k]]
\* dict.update(other)
DictUpdate(d, other) ==
    [k \in (DOMAIN d) \cup (DOMAIN other) |-> IF k \in DOMAIN other THEN other[k] ELSE d[k]]
\* a reply that carries only the keys in present
Restrict(d, present) == [k \in (DOMAIN d) \cap present |-> d[k]]
Range(seq) == {seq[i] : i \in 1..Len(seq)}

\* --------------------------------------------------- what the agents return
\* the raw text of a response: a body, bare or inside a code fence
Bodies == {<<>>, <<" ">>, OBJ, <<" ">> \o OBJ \o <<" ">>, ARR, <<"{", "x">>, <<"x">>}
Wrap(body, form) ==
    CASE form = "plain" -> body
      [] form = "fence" -> FENCE \o body \o FENCE
      [] form = "fence_tag" -> FENCE \o JSONTAG \o body \o FENCE
      [] form = "fence_lines" -> FENCE \o <<" ">> \o body \o <<" ">> \o FENCE
      [] form = "fence_json" -> FENCE \o JSONTAG \o <<" ">> \o body \o <<" ">> \o FENCE
FenceForms == {"fence", "fence_tag", "fence_lines", "fence_json"}
RawTexts == {Wrap(b, f) : b \in Bodies, f \in {"plain", "fence", "fence_json"}}
\* the raw texts a crew returns: a body, or an object inside a fence
CrewTexts == {<<>>, <<" ">>, OBJ, ARR, <<"{", "x">>, <<"x">>, Wrap(OBJ, "fence_json")}
\* the report is free text
ReportTexts == {<<>>, <<" ">>, <<"x">>, OBJ}

NoReply == EmptyDict

\* a Python value that is a text, or a dict
PyStr(text) == <<"str", text>>
PyDict(d) == <<"dict", d>>
PyList(l) == <<"list", l>>

\* what the operator types at a supplementary prompt: nothing, or an answer
Answers == {"", "a1"}

\* replies of the advisory model (main.py 160-163), or one with a key absent
InquiryKeys == {"inquiry_analysis", "supplementary_inquiries", "inquiry_complete"}
InquiryReplies ==
    {[inquiry_analysis |-> "analysis", supplementary_inquiries |-> q, inquiry_complete |-> c] :
        q \in {<<>>, <<"q1">>}, c \in {"yes", "YES", "no"}}
    \cup {Restrict([inquiry_analysis |-> "analysis", supplementary_inquiries |-> <<"q1">>,
                    inquiry_complete |-> "yes"], InquiryKeys \ {k}) : k \in InquiryKeys}

\* ------------------------------------------------------------------- state
VARIABLES
    pc,                     \* the handler (or loop) the flow is in
    err,                    \* the exception that ended the run, "none" if none
    audience_level,         \* PatientState.audience_level
    complete_sections,      \* ProcessOutline.complete_sections
    supplementary_inquiries,              \* ProcessOutline
    suggested_diagnostic_dialectics,      \* ProcessOutline
    supplementary_auxiliary_examinations, \* ProcessOutline
    diagnosis_result,       \* PatientState.diagnosis_result
    treatment_plan,         \* PatientState.treatment_plan
    files,                  \* the artifact files written, in order
    iter_times,             \* local of inquiry_assistance
    response,               \* raw text of the last agent response
    supplemetary_inquiry_dict,   \* local of inquiry_assistance: the parsed reply
    parsed_result,               \* local of diagnosis_assistance
    parsed_elimination_result,   \* local of diagnosis_assistance
    diagnosis_conclusion,        \* local of diagnosis_assistance
    diagnosis_basis,             \* local of diagnosis_assistance
    str_of_other_diagnosis_possibility,   \* local of diagnosis_assistance
    question_and_answer,    \* local suggested_diagnostic_dialectics of diagnosis_assistance
    calls,                  \* how often each agent was called (saturating)
    events,                 \* the external calls of the last step, in order
    typed,                  \* what the operator typed at the skip prompt of the last
                            \* step, and the text entered by hand after it
    answered,               \* what the operator typed at the supplementary prompts
                            \* of the last step, in the order of the prompts
    fence_content,          \* a content string
    fence_form,             \* the fence it is wrapped in
    fence_stripped,         \* clean_and_parse_json of the wrapped content
    fence_direct            \* clean_and_parse_json of the content itself

session == <<audience_level, complete_sections, supplementary_inquiries,
             suggested_diagnostic_dialectics, supplementary_auxiliary_examinations,
             diagnosis_result, treatment_plan>>
locals == <<iter_times, response, supplemetary_inquiry_dict, parsed_result,
            parsed_elimination_result, diagnosis_conclusion, diagnosis_basis,
            str_of_other_diagnosis_possibility, question_and_answer>>
fencevars == <<fence_content, fence_form, fence_stripped, fence_direct>>
vars == <<pc, err, session, files, locals, calls, events, typed, answered, fencevars>>

Agents == {"llm", "DiagnosisCrew", "PossibilitiesEliminationCrew", "TreatmentPlanCrew",
           "MultiAgentsReportCrew"}
Min(a, b) == IF a < b THEN a ELSE b
Called(agent) == [calls EXCEPT ![agent] = Min(@ + 1, MaxCount)]
\* n operator prompts
Prompts(n) == [i \in 1..n |-> "input"]

\* no text: the result is not computed yet
Unset == <<"unset">>

\* main.py 76, 132, 239, 440, 508: the handler started when a handler returns
\* (start and listen), "Done" after the last one
ListenerSkipsDiagnosis(handler) ==
    CASE handler = "get_user_input" -> "inquiry_assistance"
      [] handler = "inquiry_assistance" -> "treatment_plan_creation"
      [] handler = "diagnosis_assistance" -> "treatment_plan_creation"
      [] handler = "treatment_plan_creation" -> "multiagents_report"
      [] handler = "multiagents_report" -> "Done"
Listener(handler) ==
    CASE handler = "get_user_input" -> "inquiry_assistance"
      [] handler = "inquiry_assistance" -> "diagnosis_assistance"
      [] handler = "diagnosis_assistance" -> "treatment_plan_creation"
      [] handler = "treatment_plan_creation" -> "multiagents_report"
      [] handler = "multiagents_report" -> "Done"

\* main.py 234, 253, 433, 504: complete_sections.append(name)
MarkOnlyLast(sections, name) == <<name>>
MarkComplete(sections, name) == Append(sections, name)

\* main.py 202, 205, 210, 290, 361, 493: an exception raised in a handler is not
\* caught: it leaves the handler and no listener of the handler is started
RaiseAndRetry(stage) == stage
Raise(stage) == "Error"

InitFlow ==
    /\ pc = "get_user_input"
    /\ err = "none"
    /\ audience_level = ""
    /\ complete_sections = <<>>
    /\ supplementary_inquiries = EmptyDict
    /\ suggested_diagnostic_dialectics = <<>>
    /\ supplementary_auxiliary_examinations = EmptyDict
    /\ diagnosis_result = EmptyDict
    /\ treatment_plan = EmptyDict
    /\ files = <<>>
    /\ iter_times = 0
    /\ response = <<>>
    /\ supplemetary_inquiry_dict = NoReply
    /\ parsed_result = NoReply
    /\ parsed_elimination_result = NoReply
    /\ diagnosis_conclusion = ""
    /\ diagnosis_basis = ""
    /\ str_of_other_diagnosis_possibility = <<>>
    /\ question_and_answer = PyDict(EmptyDict)
    /\ calls = [a \in Agents |-> 0]
    /\ events = <<>>
    /\ typed = <<>>
    /\ answered = <<>>

Init ==
    /\ InitFlow
    /\ fence_content = <<>>
    /\ fence_form = "plain"
    /\ fence_stripped = Unset
    /\ fence_direct = Unset

\* ------------------------------------------------------------ get_user_input
AudienceLevels == {"non-professional", "professional", "top-expert"}
\* main.py 123: the audience is not read from the console, it is a fixed text
AudienceTopExpert == "Top-Expert"
AudienceInput == "Professional"

\* main.py 120-127: the audience is the fixed text "Professional", lower-cased
get_user_input ==
    /\ pc = "get_user_input"
    /\ LET audience == Lower(AudienceInput)
       IN  /\ audience \in AudienceLevels
           /\ audience_level' = audience
    /\ pc' = Listener("get_user_input")
    /\ iter_times' = 0
    /\ events' = <<>>
    /\ typed' = <<>>
    /\ answered' = <<>>
    /\ UNCHANGED <<err, complete_sections, supplementary_inquiries,
                   suggested_diagnostic_dialectics, supplementary_auxiliary_examinations,
                   diagnosis_result, treatment_plan, files, response,
                   supplemetary_inquiry_dict, parsed_result, parsed_elimination_result,
                   diagnosis_conclusion, diagnosis_basis,
                   str_of_other_diagnosis_possibility, question_and_answer,
                   calls, fencevars>>

\* -------------------------------------------------------- inquiry_assistance
MaxInquiryIter == 2

\* main.py 144: the loop condition
InquiryLoopGuardThree(sections, it) ==
    "initial_inquiry" \notin Range(sections) /\ it < MaxInquiryIter + 1
InquiryLoopGuard(sections, it) ==
    "initial_inquiry" \notin Range(sections) /\ it < MaxInquiryIter

\* main.py 201-210: the text that is accepted as a reply
InquiryReject(clean_response) ==
    IF Strip(clean_response) = <<>> THEN "ValueError"
    ELSE IF Head(Strip(clean_response)) # "{" THEN "ValueError"
    ELSE IF JsonKind(clean_response) = "invalid" THEN "ValueError"
    ELSE "none"

\* main.py 220-230: the answers the operator gives are recorded, the empty ones not
RecordEveryAnswer(d, questions, answers, i) ==
    [k \in (DOMAIN d) \cup Range(questions) |->
        IF k \in Range(questions)
        THEN answers[CHOOSE j \in 1..Len(questions) : questions[j] = k]
        ELSE d[k]]
RECURSIVE RecordAnswers(_, _, _, _)
RecordAnswers(d, questions, answers, i) ==
    IF i > Len(questions) THEN d
    ELSE RecordAnswers(IF answers[i] # "" THEN DictSet(d, questions[i], answers[i]) ELSE d,
                       questions, answers, i + 1)

\* main.py 233: the reply says the inquiry is complete
InquiryCompleteExact(reply) == Get(reply, "inquiry_complete", "") = "yes"
InquiryComplete(reply) == Lower(Get(reply, "inquiry_complete", "")) = "yes"

\* main.py 145-235: one pass of the loop
InquiryPass ==
    /\ pc = "inquiry_assistance"
    /\ InquiryLoopGuard(complete_sections, iter_times)
    /\ typed' = <<>>
    /\ \E raw \in RawTexts :
         LET clean_response == clean_and_parse_json(raw)
             rejected == InquiryReject(clean_response)
             Analysed(reply) == DictSet(supplementary_inquiries, "inquiry_analysis",
                                        Get(reply, "inquiry_analysis", "no inquiry summary"))
         IN  /\ response' = raw
             /\ calls' = Called("llm")
             /\ IF rejected # "none"
                THEN /\ pc' = Raise(pc)
                     /\ err' = rejected
                     /\ events' = <<"llm">>
                     /\ answered' = <<>>
                     /\ UNCHANGED <<supplementary_inquiries, complete_sections,
                                    iter_times, supplemetary_inquiry_dict>>
                ELSE \E reply \in InquiryReplies :
                     IF "supplementary_inquiries" \notin DOMAIN reply
                     \* len of the default text is 5, then range(len(None)) raises
                     THEN /\ pc' = Raise(pc)
                          /\ err' = "TypeError"
                          /\ events' = <<"llm">>
                          /\ answered' = <<>>
                          /\ supplemetary_inquiry_dict' = reply
                          /\ supplementary_inquiries' = Analysed(reply)
                          /\ UNCHANGED <<complete_sections, iter_times>>
                     ELSE
                     \E answers \in [1..Len(reply["supplementary_inquiries"]) -> Answers] :
                     /\ supplemetary_inquiry_dict' = reply
                     /\ answered' = answers
                     /\ supplementary_inquiries' =
                            RecordAnswers(Analysed(reply), reply["supplementary_inquiries"],
                                          answers, 1)
                     /\ complete_sections' =
                            IF InquiryComplete(reply)
                            THEN MarkComplete(complete_sections, "initial_inquiry")
                            ELSE complete_sections
                     /\ iter_times' = iter_times + 1
                     /\ events' = <<"llm">> \o Prompts(Len(reply["supplementary_inquiries"]))
                     /\ UNCHANGED <<pc, err>>
    /\ UNCHANGED <<audience_level, suggested_diagnostic_dialectics,
                   supplementary_auxiliary_examinations, diagnosis_result, treatment_plan,
                   files, parsed_result, parsed_elimination_result, diagnosis_conclusion,
                   diagnosis_basis, str_of_other_diagnosis_possibility,
                   question_and_answer, fencevars>>

\* main.py 236-237: the loop is left and the handler returns
InquiryReturn ==
    /\ pc = "inquiry_assistance"
    /\ ~InquiryLoopGuard(complete_sections, iter_times)
    /\ pc' = Listener("inquiry_assistance")
    /\ iter_times' = 0
    /\ response' = <<>>
    /\ supplemetary_inquiry_dict' = NoReply
    /\ events' = <<>>
    /\ typed' = <<>>
    /\ answered' = <<>>
    /\ UNCHANGED <<err, session, files, parsed_result, parsed_elimination_result,
                   diagnosis_conclusion, diagnosis_basis,
                   str_of_other_diagnosis_possibility, question_and_answer,
                   calls, fencevars>>

\* ------------------------------------------------------ diagnosis_assistance
\* a diagnosis that is still possible: a dict, here its items in order
A1 == << <<"disease", "alt1">>, <<"reason", "r1">> >>
A2 == << <<"disease", "alt2">> >>

\* main.py 303-306 and 391-394: ", ".join of k:v inside "; ".join of the entities
RECURSIVE EntityStr(_, _)
EntityStr(entity, i) ==
    IF i > Len(entity) THEN <<>>
    ELSE (IF i > 1 THEN <<", ">> ELSE <<>>)
         \o <<entity[i][1], ":", entity[i][2]>> \o EntityStr(entity, i + 1)
RECURSIVE ListStr(_, _)
ListStr(list, i) ==
    IF i > Len(list) THEN <<>>
    ELSE (IF i > 1 THEN <<"; ">> ELSE <<>>) \o EntityStr(list[i], 1) \o ListStr(list, i + 1)

\* replies of DiagnosisCrew, or one with a key absent
DiagnosisKeys == {"diagnosis_conclusion", "diagnosis_basis", "other_diagnosis_possibility",
                  "suggested_question", "suggested_auxiliary_examinations"}
DiagnosisReplies ==
    {[diagnosis_conclusion |-> "dx1", diagnosis_basis |-> "basis1",
      other_diagnosis_possibility |-> o, suggested_question |-> "sq1",
      suggested_auxiliary_examinations |-> x] :
        o \in {<<>>, <<A1, A2>>}, x \in {<<>>, <<[examination_name |-> "MRI"]>>}}
    \cup {Restrict([diagnosis_conclusion |-> "dx1", diagnosis_basis |-> "basis1",
                    other_diagnosis_possibility |-> <<A1, A2>>, suggested_question |-> "sq1",
                    suggested_auxiliary_examinations |-> <<[examination_name |-> "MRI"]>>],
                   DiagnosisKeys \ {k}) : k \in DiagnosisKeys}

\* replies of PossibilitiesEliminationCrew, or one with a key absent
EliminationKeys == {"further_inquiries_needed", "diagnosis_conclusion", "diagnosis_basis",
                    "other_diagnosis_possibility", "suggested_auxiliary_check",
                    "suggested_question"}
EliminationReplies ==
    {[further_inquiries_needed |-> f, diagnosis_conclusion |-> c,
      diagnosis_basis |-> "basis2", other_diagnosis_possibility |-> o,
      suggested_auxiliary_check |-> x, suggested_question |-> "sq2"] :
        f \in {"no", "No", "yes"}, c \in {"dx2", "dx3"}, o \in {<<>>, <<A1>>},
        x \in {<<>>, <<"CT">>}}
    \cup {Restrict([further_inquiries_needed |-> "yes", diagnosis_conclusion |-> "dx2",
                    diagnosis_basis |-> "basis2", other_diagnosis_possibility |-> <<A1>>,
                    suggested_auxiliary_check |-> <<"CT">>, suggested_question |-> "sq2"],
                   EliminationKeys \ {k}) : k \in EliminationKeys}

\* main.py 290 and 361: json.loads of the raw text, then .get on the value
CrewReplyError(raw) ==
    IF JsonKind(raw) = "invalid" THEN "JSONDecodeError"
    ELSE IF JsonKind(raw) = "array" THEN "AttributeError"
    ELSE "none"

\* main.py 244, 446: the operator skips the assisted stage
SkipKeys == {"", "n", "q", "Q"}
SkipsExact(key) == key = "q"
Skips(key) == Lower(key) = "q"

\* main.py 324-333: the results the operator gives for the suggested examinations
RECURSIVE RecordExaminations(_, _, _, _)
RecordExaminations(d, exams, answers, i) ==
    IF i > Len(exams) THEN d
    ELSE RecordExaminations(
            IF answers[i] # ""
            THEN DictSet(d, Get(exams[i], "examination_name", "no examination item"), answers[i])
            ELSE d,
            exams, answers, i + 1)

\* main.py 314-316, 414-416: an answered question is appended as a one-pair dict
Dialectic(question, answer) == DictSet(EmptyDict, question, answer)
\* the operator may answer while the record has room
MayAnswer(answer) == answer = "" \/ Len(suggested_diagnostic_dialectics) < MaxDialectics

\* main.py 336-339
LastDialectic(dialectics) ==
    IF Len(dialectics) > 0 THEN PyDict(dialectics[Len(dialectics)])
    ELSE PyStr("no suggested dialectics yet")

\* main.py 344: the elimination loop is entered
EliminationEnteredAlways(list) == TRUE
EliminationEntered(list) == Len(list) > 0

\* main.py 248-251, 427-431: the diagnosis that is stored in the session
DiagnosisResultNoBasis(conclusion, basis) == [diagnosis_conclusion |-> conclusion]
DiagnosisResultSwapped(conclusion, basis) ==
    [diagnosis_conclusion |-> basis, diagnosis_basis |-> conclusion]
DiagnosisResult(conclusion, basis) ==
    [diagnosis_conclusion |-> conclusion, diagnosis_basis |-> basis]

\* main.py 244-255: the operator enters the diagnosis by hand
DiagnosisBypass ==
    /\ pc = "diagnosis_assistance"
    /\ \E key \in SkipKeys, conclusion \in {"manual dx"}, basis \in {"", "manual basis"} :
         /\ Skips(key)
         /\ diagnosis_result' = DiagnosisResult(conclusion, basis)
         /\ typed' = <<key, conclusion, basis>>
         /\ answered' = <<>>
    /\ complete_sections' = MarkComplete(complete_sections, "diagnosis")
    /\ pc' = Listener("diagnosis_assistance")
    /\ events' = Prompts(3)
    /\ UNCHANGED <<err, audience_level, supplementary_inquiries,
                   suggested_diagnostic_dialectics, supplementary_auxiliary_examinations,
                   treatment_plan, files, locals, calls, fencevars>>

\* main.py 257-346: DiagnosisCrew is called and its reply worked through
DiagnosisCall ==
    /\ pc = "diagnosis_assistance"
    /\ \E key \in SkipKeys, raw \in CrewTexts :
         LET failed == CrewReplyError(raw)
         IN  /\ ~Skips(key)
             /\ typed' = <<key>>
             /\ response' = raw
             /\ calls' = Called("DiagnosisCrew")
             /\ IF failed # "none"
                THEN /\ pc' = Raise(pc)
                     /\ err' = failed
                     /\ events' = <<"input", "DiagnosisCrew">>
                     /\ answered' = <<>>
                     /\ UNCHANGED <<suggested_diagnostic_dialectics,
                                    supplementary_auxiliary_examinations, parsed_result,
                                    diagnosis_conclusion, diagnosis_basis,
                                    str_of_other_diagnosis_possibility, question_and_answer>>
                ELSE \E reply \in DiagnosisReplies, answer \in Answers :
                     LET list == Get(reply, "other_diagnosis_possibility", <<>>)
                         exams == Get(reply, "suggested_auxiliary_examinations", <<>>)
                     IN
                     \E results \in [1..Len(exams) -> Answers] :
                     LET dialectics ==
                             IF answer # ""
                             THEN Append(suggested_diagnostic_dialectics,
                                         Dialectic(Get(reply, "suggested_question",
                                                       "no suggested question"), answer))
                             ELSE suggested_diagnostic_dialectics
                     IN  /\ MayAnswer(answer)
                         /\ answered' = <<answer>> \o results
                         /\ parsed_result' = reply
                         /\ diagnosis_conclusion' =
                                Get(reply, "diagnosis_conclusion", "no diagnosis conclusion")
                         /\ diagnosis_basis' = Get(reply, "diagnosis_basis", "no diagnosis basis")
                         /\ str_of_other_diagnosis_possibility' = ListStr(list, 1)
                         /\ suggested_diagnostic_dialectics' = dialectics
                         /\ supplementary_auxiliary_examinations' =
                                RecordExaminations(supplementary_auxiliary_examinations,
                                                   exams, results, 1)
                         /\ question_and_answer' = LastDialectic(dialectics)
                         /\ pc' = IF EliminationEntered(list) THEN "elimination"
                                  ELSE "diagnosis_return"
                         /\ events' = <<"input", "DiagnosisCrew">> \o Prompts(1 + Len(exams))
                         /\ UNCHANGED err
    /\ UNCHANGED <<audience_level, complete_sections, supplementary_inquiries,
                   diagnosis_result, treatment_plan, files, iter_times,
                   supplemetary_inquiry_dict, parsed_elimination_result, fencevars>>

\* main.py 364: the reply says that no further inquiry is needed
NoFurtherInquiriesExact(reply) == Get(reply, "further_inquiries_needed", "unknown") = "no"
NoFurtherInquiries(reply) == Lower(Get(reply, "further_inquiries_needed", "unknown")) = "no"

\* main.py 367-370 and 376-379: the conclusion and the basis after a reply
ConclusionKept(reply, current) == current
ConclusionAfter(reply, current) ==
    Get(reply, "diagnosis_conclusion", "no updated diagnosis conclusion")
BasisAfter(reply, current) == Get(reply, "diagnosis_basis", "no updated diagnosis basis")

\* main.py 401-409: the results the operator gives for the suggested checks
RECURSIVE RecordChecks(_, _, _, _)
RecordChecks(d, checks, answers, i) ==
    IF i > Len(checks) THEN d
    ELSE RecordChecks(IF answers[i] # "" THEN DictSet(d, checks[i], answers[i]) ELSE d,
                      checks, answers, i + 1)

\* main.py 350-357: the inputs of a PossibilitiesEliminationCrew kickoff
EliminationInputs ==
    [diagnosis_conclusion |-> diagnosis_conclusion,
     diagnosis_basis |-> diagnosis_basis,
     other_diagnosis_possibility |-> str_of_other_diagnosis_possibility,
     suggested_question_and_answer |-> question_and_answer,
     suggested_auxiliary_check_and_result |-> supplementary_auxiliary_examinations,
     audience_level |-> audience_level]

\* main.py 346-420: one pass of the elimination loop
EliminationPass ==
    /\ pc = "elimination"
    /\ typed' = <<>>
    /\ \E raw \in CrewTexts :
         LET failed == CrewReplyError(raw)
         IN  /\ response' = raw
             /\ calls' = Called("PossibilitiesEliminationCrew")
             /\ IF failed # "none"
                THEN /\ pc' = Raise(pc)
                     /\ err' = failed
                     /\ events' = <<"PossibilitiesEliminationCrew">>
                     /\ answered' = <<>>
                     /\ UNCHANGED <<suggested_diagnostic_dialectics,
                                    supplementary_auxiliary_examinations,
                                    parsed_elimination_result, diagnosis_conclusion,
                                    diagnosis_basis, str_of_other_diagnosis_possibility,
                                    question_and_answer>>
                ELSE \E reply \in EliminationReplies :
                     LET list == Get(reply, "other_diagnosis_possibility", <<>>)
                         checks == Get(reply, "suggested_auxiliary_check", <<>>)
                     IN
                     /\ parsed_elimination_result' = reply
                     /\ diagnosis_conclusion' = ConclusionAfter(reply, diagnosis_conclusion)
                     /\ diagnosis_basis' = BasisAfter(reply, diagnosis_basis)
                     /\ UNCHANGED err
                     /\ IF NoFurtherInquiries(reply) \/ Len(list) = 0
                        THEN /\ pc' = "diagnosis_return"
                             /\ events' = <<"PossibilitiesEliminationCrew">>
                             /\ answered' = <<>>
                             /\ UNCHANGED <<suggested_diagnostic_dialectics,
                                            supplementary_auxiliary_examinations,
                                            str_of_other_diagnosis_possibility,
                                            question_and_answer>>
                        ELSE \E results \in [1..Len(checks) -> Answers], answer \in Answers :
                             LET question == Get(reply, "suggested_question",
                                                 "no suggested question")
                             IN  /\ MayAnswer(answer)
                                 /\ answered' = results \o <<answer>>
                                 /\ str_of_other_diagnosis_possibility' = ListStr(list, 1)
                                 /\ supplementary_auxiliary_examinations' =
                                        RecordChecks(supplementary_auxiliary_examinations,
                                                     checks, results, 1)
                                 /\ IF answer # ""
                                    THEN /\ question_and_answer' =
                                                PyDict(Dialectic(question, answer))
                                         /\ suggested_diagnostic_dialectics' =
                                                Append(suggested_diagnostic_dialectics,
                                                       Dialectic(question, answer))
                                    ELSE /\ question_and_answer' = PyDict(EmptyDict)
                                         /\ UNCHANGED suggested_diagnostic_dialectics
                                 \* no suggested check: ready_to_treatment_plan = True
                                 /\ pc' = IF Len(checks) = 0 THEN "diagnosis_return"
                                          ELSE "elimination"
                                 /\ events' = <<"PossibilitiesEliminationCrew">>
                                              \o Prompts(Len(checks) + 1)
    /\ UNCHANGED <<audience_level, complete_sections, supplementary_inquiries,
                   diagnosis_result, treatment_plan, files, iter_times,
                   supplemetary_inquiry_dict, parsed_result, fencevars>>

\* the locals of diagnosis_assistance end with the handler
DiagnosisLocalsGone ==
    /\ response' = <<>>
    /\ parsed_result' = NoReply
    /\ parsed_elimination_result' = NoReply
    /\ diagnosis_conclusion' = ""
    /\ diagnosis_basis' = ""
    /\ str_of_other_diagnosis_possibility' = <<>>
    /\ question_and_answer' = PyDict(EmptyDict)

\* main.py 424-436: the result is stored and the handler returns
DiagnosisReturn ==
    /\ pc = "diagnosis_return"
    /\ diagnosis_result' = DiagnosisResult(diagnosis_conclusion, diagnosis_basis)
    /\ complete_sections' = MarkComplete(complete_sections, "diagnosis")
    /\ pc' = Listener("diagnosis_assistance")
    /\ events' = <<>>
    /\ typed' = <<>>
    /\ answered' = <<>>
    /\ DiagnosisLocalsGone
    /\ UNCHANGED <<err, audience_level, supplementary_inquiries,
                   suggested_diagnostic_dialectics, supplementary_auxiliary_examinations,
                   treatment_plan, files, iter_times, supplemetary_inquiry_dict, calls,
                   fencevars>>

\* --------------------------------------------------- treatment_plan_creation
ManualPlans == {<<>>, <<"p", "l", "a", "n">>}
\* main.py 451-452, 498-499: the plan file and what is written to it
PlanFileBlank(content) == [dir |-> "treatment_plans", content |-> <<>>]
PlanFile(content) == [dir |-> "treatment_plans", content |-> content]
PlanReplies == {EmptyDict, [plan |-> "tp1"]}

\* main.py 446-454: the operator enters the plan by hand
TreatmentBypass ==
    /\ pc = "treatment_plan_creation"
    /\ \E key \in SkipKeys, plan \in ManualPlans :
         /\ Skips(key)
         /\ treatment_plan' = DictSet(treatment_plan, "manual_treatment_plan", plan)
         /\ files' = Append(files, PlanFile(plan))
         /\ typed' = <<key, plan>>
         /\ answered' = <<>>
    /\ complete_sections' = MarkComplete(complete_sections, "treatment plan")
    /\ pc' = Listener("treatment_plan_creation")
    /\ events' = <<"input", "input", "write">>
    /\ UNCHANGED <<err, audience_level, supplementary_inquiries,
                   suggested_diagnostic_dialectics, supplementary_auxiliary_examinations,
                   diagnosis_result, locals, calls, fencevars>>

\* main.py 458-483: the inputs of the TreatmentPlanCrew kickoff
TreatmentInputs ==
    [audience_level |-> audience_level,
     diagnosis_conclusion |->
         Get(diagnosis_result, "diagnosis_conclusion", "no diagnosis conclusion"),
     diagnosis_basis |-> Get(diagnosis_result, "diagnosis_basis", "no diagnosis basis"),
     supplementary_auxiliary_examinations |-> PyDict(supplementary_auxiliary_examinations),
     \* main.py 462 reads supplementary_auxiliary_examinations for this input
     suggested_diagnostic_dialectics |-> PyDict(supplementary_auxiliary_examinations)]

\* main.py 490-493: json.loads inside try, a decode error becomes ValueError
PlanReplyUnchecked(raw) == "none"
PlanReplyError(raw) == IF JsonKind(raw) = "invalid" THEN "ValueError" ELSE "none"

\* main.py 495: self.state.treatment_plan.update(dict_plan_result); the two
\* dicts of the session after it
StorePlanInDiagnosis(diagnosis, plan, dict_plan_result) ==
    [diagnosis_result |-> DictUpdate(diagnosis, dict_plan_result), treatment_plan |-> plan]
StorePlan(diagnosis, plan, dict_plan_result) ==
    [diagnosis_result |-> diagnosis, treatment_plan |-> DictUpdate(plan, dict_plan_result)]

\* main.py 456-505: TreatmentPlanCrew is called, its plan stored and written
TreatmentAgent ==
    /\ pc = "treatment_plan_creation"
    /\ \E key \in SkipKeys, raw \in CrewTexts :
         LET failed == PlanReplyError(raw)
         IN  /\ ~Skips(key)
             /\ typed' = <<key>>
             /\ answered' = <<>>
             /\ response' = raw
             /\ calls' = Called("TreatmentPlanCrew")
             /\ IF failed # "none"
                THEN /\ pc' = Raise(pc)
                     /\ err' = failed
                     /\ events' = <<"input", "TreatmentPlanCrew">>
                     /\ UNCHANGED <<diagnosis_result, treatment_plan, files,
                                    complete_sections>>
                ELSE \E reply \in PlanReplies :
                     \* an empty array updates the dict with nothing
                     LET dict_plan_result ==
                             IF JsonKind(raw) = "object" THEN reply ELSE EmptyDict
                     IN
                     /\ treatment_plan' =
                            StorePlan(diagnosis_result, treatment_plan,
                                      dict_plan_result).treatment_plan
                     /\ diagnosis_result' =
                            StorePlan(diagnosis_result, treatment_plan,
                                      dict_plan_result).diagnosis_result
                     /\ files' = Append(files, PlanFile(raw))
                     /\ complete_sections' = MarkComplete(complete_sections, "treatment plan")
                     /\ pc' = Listener("treatment_plan_creation")
                     /\ events' = <<"input", "TreatmentPlanCrew", "write">>
                     /\ UNCHANGED err
    /\ UNCHANGED <<audience_level, supplementary_inquiries,
                   suggested_diagnostic_dialectics, supplementary_auxiliary_examinations,
                   iter_times, supplemetary_inquiry_dict, parsed_result,
                   parsed_elimination_result, diagnosis_conclusion, diagnosis_basis,
                   str_of_other_diagnosis_possibility, question_and_answer, fencevars>>

\* -------------------------------------------------------- multiagents_report
\* main.py 573-574: the report file and what is written to it
ReportFileAmongPlans(content) == [dir |-> "treatment_plans", content |-> content]
ReportFile(content) == [dir |-> "summary_reports", content |-> content]

\* main.py 509-576: MultiAgentsReportCrew is called and its raw text written
multiagents_report ==
    /\ pc = "multiagents_report"
    /\ \E raw \in ReportTexts :
         /\ response' = raw
         /\ files' = Append(files, ReportFile(raw))
    /\ calls' = Called("MultiAgentsReportCrew")
    /\ pc' = Listener("multiagents_report")
    /\ events' = <<"MultiAgentsReportCrew", "write">>
    /\ typed' = <<>>
    /\ answered' = <<>>
    /\ UNCHANGED <<err, session, iter_times, supplemetary_inquiry_dict, parsed_result,
                   parsed_elimination_result, diagnosis_conclusion, diagnosis_basis,
                   str_of_other_diagnosis_possibility, question_and_answer, fencevars>>

Next ==
    \/ get_user_input
    \/ InquiryPass
    \/ InquiryReturn
    \/ DiagnosisBypass
    \/ DiagnosisCall
    \/ EliminationPass
    \/ DiagnosisReturn
    \/ TreatmentBypass
    \/ TreatmentAgent
    \/ multiagents_report
Spec == Init /\ [][Next]_vars

\* every agent call and every console read returns, so a handler that can take a
\* step takes it
FairSpec == Spec /\ WF_vars(Next)

\* ------------------------------------------------- clean_and_parse_json alone
\* content strings: up to MaxPieces pieces put together
Pieces == {<<BACKTICK>>, <<" ">>, <<"{">>, <<"}">>, <<"x">>, JSONTAG, FENCE,
           MemberOpen, MemberClose}
RECURSIVE Contents(_)
Contents(n) ==
    IF n = 0 THEN {<<>>}
    ELSE Contents(n - 1) \cup {c \o piece : c \in Contents(n - 1), piece \in Pieces}

InitFence ==
    /\ InitFlow
    /\ fence_content \in Contents(MaxPieces)
    /\ fence_form \in FenceForms
    /\ fence_stripped = Unset
    /\ fence_direct = Unset

\* main.py 199: the function applied to the fenced content and to the content
StripFenced ==
    /\ fence_stripped = Unset
    /\ fence_stripped' = clean_and_parse_json(Wrap(fence_content, fence_form))
    /\ fence_direct' = clean_and_parse_json(fence_content)
    /\ UNCHANGED <<pc, err, session, files, locals, calls, events, typed, answered,
                   fence_content, fence_form>>

NextFence == StripFenced
SpecFence == InitFence /\ [][NextFence]_vars

\* ================================================================== claims
Has(seq, x) == \E i \in 1..Len(seq) : seq[i] = x
Count(seq, x) == Cardinality({i \in 1..Len(seq) : seq[i] = x})
Finished == pc \in {"Done", "Error"}
\* the errors that report a malformed agent output: ValueError and its subclass
Malformed == {"ValueError", "JSONDecodeError"}
IsBlank(text) == \A i \in 1..Len(text) : text[i] = " "
SaidYes(reply) ==
    "inquiry_complete" \in DOMAIN reply /\ reply["inquiry_complete"] \in {"yes", "Yes", "YES"}
SaidNo(reply) ==
    /\ "further_inquiries_needed" \in DOMAIN reply
    /\ reply["further_inquiries_needed"] \in {"no", "No", "NO"}
NoAlternatives(reply) ==
    \/ "other_diagnosis_possibility" \notin DOMAIN reply
    \/ Len(reply["other_diagnosis_possibility"]) = 0
PEC == "PossibilitiesEliminationCrew"

\* C1: in a completed run complete_sections holds "initial_inquiry", "diagnosis"
\* and "treatment plan" in that order, each of them once.
C1_SectionsOfCompletedRun ==
    pc = "Done" =>
        /\ \E i, j, k \in 1..Len(complete_sections) :
             /\ i < j /\ j < k
             /\ complete_sections[i] = "initial_inquiry"
             /\ complete_sections[j] = "diagnosis"
             /\ complete_sections[k] = "treatment plan"
        /\ \A name \in {"initial_inquiry", "diagnosis", "treatment plan"} :
             Count(complete_sections, name) <= 1

\* C2: every loop is bounded: when every agent call and every console read
\* returns, the flow eventually is done or has aborted.
C2_FlowTerminates == <>Finished

\* C3: an elimination reply whose further_inquiries_needed is "no" in any case
\* ends the loop in that pass with no operator prompt, whatever alternatives it
\* lists, and after the loop neither the crew nor the operator is asked again.
C3_NoEndsElimination ==
    [][ /\ (pc = "elimination" /\ pc' # "Error" /\ SaidNo(parsed_elimination_result'))
            => (pc' = "diagnosis_return" /\ events' = <<PEC>>)
        /\ pc = "diagnosis_return" => (~Has(events', PEC) /\ ~Has(events', "input"))
      ]_vars
C3_Witness ==
    /\ pc = "diagnosis_return"
    /\ calls[PEC] = 1
    /\ SaidNo(parsed_elimination_result)
    /\ parsed_elimination_result["further_inquiries_needed"] = "No"
    /\ ~NoAlternatives(parsed_elimination_result)

\* C4: when the reply of DiagnosisCrew lists no other possibility (the list is
\* empty or absent), PossibilitiesEliminationCrew is not called in the run and
\* diagnosis_result is the conclusion and the basis of that reply.
C4_NoAlternativesNoElimination ==
    [][ /\ (pc = "diagnosis_assistance" /\ Has(events', "DiagnosisCrew") /\ pc' # "Error"
            /\ NoAlternatives(parsed_result'))
            => (pc' = "diagnosis_return" /\ calls'[PEC] = 0)
        /\ (pc = "diagnosis_return" /\ NoAlternatives(parsed_result))
            => /\ calls[PEC] = 0
               /\ calls'[PEC] = 0
               /\ diagnosis_result' =
                    [diagnosis_conclusion |->
                         Get(parsed_result, "diagnosis_conclusion", "no diagnosis conclusion"),
                     diagnosis_basis |->
                         Get(parsed_result, "diagnosis_basis", "no diagnosis basis")]
        /\ pc \in {"treatment_plan_creation", "multiagents_report"}
            => calls'[PEC] = calls[PEC]
      ]_vars
C4_Witness ==
    /\ pc = "treatment_plan_creation"
    /\ calls["DiagnosisCrew"] = 1
    /\ calls[PEC] = 0
    /\ diagnosis_result = [diagnosis_conclusion |-> "dx1", diagnosis_basis |-> "basis1"]

\* C5: at every stage that calls an agent, an empty or whitespace-only response
\* aborts the run with the malformed-output error: no session field changes, no
\* section is appended, no file is written.
C5_BlankResponseAborts ==
    [][ ((\E a \in Agents : Has(events', a)) /\ IsBlank(response'))
            => /\ pc' = "Error"
               /\ err' \in Malformed
               /\ session' = session
               /\ files' = files
      ]_vars

\* C6: at every stage that parses JSON, a response whose fence-stripped text is
\* empty, does not start with "{" or does not parse is rejected with the
\* malformed-output error, before any field of a reply is read.
C6_NonObjectRejected ==
    [][ ( /\ \E a \in Agents \ {"MultiAgentsReportCrew"} : Has(events', a)
          /\ LET text == Strip(clean_and_parse_json(response'))
             IN  text = <<>> \/ Head(text) # "{" \/ JsonKind(text) = "invalid" )
            => /\ pc' = "Error"
               /\ err' \in Malformed
               /\ session' = session
               /\ files' = files
      ]_vars

\* C7: a content string that is the text of a JSON object, wrapped in a code
\* fence (with or without the json tag) and stripped, is that text again and
\* parses to the object, as the content does when it is passed directly.
C7_FencedObjectParses ==
    (fence_stripped # Unset /\ JsonKind(fence_content) = "object")
        => /\ Strip(fence_stripped) = Strip(fence_content)
           /\ JsonKind(fence_stripped) = "object"
           /\ JsonKind(fence_direct) = "object"

\* C8: "initial_inquiry" is appended in a pass exactly when the reply of that
\* pass says "yes" in any case, and no pass runs once it is appended: a first
\* reply of yes means one call of the advisory model.
C8_InquiryStopsOnYes ==
    [][ /\ (pc = "inquiry_assistance" /\ Has(events', "llm") /\ pc' # "Error")
            => IF SaidYes(supplemetary_inquiry_dict')
               THEN complete_sections' = Append(complete_sections, "initial_inquiry")
               ELSE complete_sections' = complete_sections
        /\ Has(complete_sections, "initial_inquiry")
            => /\ ~Has(events', "llm")
               /\ calls'["llm"] = calls["llm"]
               /\ Count(complete_sections', "initial_inquiry") = 1
      ]_vars
C8_Witness ==
    /\ pc = "diagnosis_assistance"
    /\ calls["llm"] = 1
    /\ complete_sections = <<"initial_inquiry">>

\* C9: the advisory model is called at least once and at most twice; after the
\* second pass the handler returns and the diagnosis starts, complete or not.
C9_InquiryAtMostTwoPasses ==
    [][ /\ calls'["llm"] <= 2
        /\ pc' \notin {"get_user_input", "inquiry_assistance"} => calls'["llm"] >= 1
        /\ (pc = "inquiry_assistance" /\ calls["llm"] = 2)
            => (pc' = "diagnosis_assistance" /\ calls' = calls)
      ]_vars
C9_Witness ==
    /\ pc = "diagnosis_assistance"
    /\ calls["llm"] = 2
    /\ complete_sections = <<>>

\* C10: every elimination pass sets the conclusion and the basis to those of its
\* reply; after at least one pass diagnosis_result is the conclusion and basis of
\* the last elimination reply, and a first reply of "no" means one pass.
ReplyConclusion(reply) ==
    IF "diagnosis_conclusion" \in DOMAIN reply THEN reply["diagnosis_conclusion"]
    ELSE "no updated diagnosis conclusion"
ReplyBasis(reply) ==
    IF "diagnosis_basis" \in DOMAIN reply THEN reply["diagnosis_basis"]
    ELSE "no updated diagnosis basis"
C10_LastEliminationReplyWins ==
    [][ /\ (pc = "elimination" /\ pc' # "Error")
            => /\ diagnosis_conclusion' = ReplyConclusion(parsed_elimination_result')
               /\ diagnosis_basis' = ReplyBasis(parsed_elimination_result')
        /\ (pc = "diagnosis_return" /\ calls[PEC] >= 1)
            => diagnosis_result' =
                   [diagnosis_conclusion |-> ReplyConclusion(parsed_elimination_result),
                    diagnosis_basis |-> ReplyBasis(parsed_elimination_result)]
        /\ (pc = "elimination" /\ calls[PEC] = 0 /\ pc' # "Error"
            /\ SaidNo(parsed_elimination_result'))
            => (pc' = "diagnosis_return" /\ calls'[PEC] = 1)
        /\ pc = "diagnosis_return" => calls' = calls
      ]_vars
C10_Witness ==
    /\ pc = "treatment_plan_creation"
    /\ calls[PEC] = 2
    /\ diagnosis_result = [diagnosis_conclusion |-> "dx3", diagnosis_basis |-> "basis2"]

\* the operator typed q (in either case) at the skip prompt of the step
TypedSkip(lines) == Len(lines) >= 1 /\ lines[1] \in {"q", "Q"}

\* C11: when the operator enters q at the treatment-planning prompt,
\* TreatmentPlanCrew is not called, the plan typed by hand is the whole content
\* of the one plan file written, treatment_plan["manual_treatment_plan"] is that
\* text, and "treatment plan" is appended to complete_sections.
C11_ManualPlanWritten ==
    [][ (pc = "treatment_plan_creation" /\ TypedSkip(typed'))
            => /\ Len(typed') = 2
               /\ ~Has(events', "TreatmentPlanCrew")
               /\ calls' = calls
               /\ files' = Append(files, [dir |-> "treatment_plans", content |-> typed'[2]])
               /\ "manual_treatment_plan" \in DOMAIN treatment_plan'
               /\ treatment_plan'["manual_treatment_plan"] = typed'[2]
               /\ complete_sections' = Append(complete_sections, "treatment plan")
               /\ pc' = "multiagents_report"
      ]_vars
C11_Witness ==
    /\ pc = "multiagents_report"
    /\ typed = <<"q", <<"p", "l", "a", "n">> >>
    /\ calls["TreatmentPlanCrew"] = 0
    /\ files = <<[dir |-> "treatment_plans", content |-> <<"p", "l", "a", "n">>]>>
    /\ treatment_plan = [manual_treatment_plan |-> <<"p", "l", "a", "n">>]

\* the name a stage appends to complete_sections
StageName(stage) ==
    CASE stage = "inquiry_assistance" -> "initial_inquiry"
      [] stage = "diagnosis_assistance" -> "diagnosis"
      [] stage = "treatment_plan_creation" -> "treatment plan"
AgentCalled(evs) == \E a \in Agents : Has(evs, a)
\* a stage asks the operator whether to skip it before it calls an agent, and
\* when the operator skips it, no agent is called and the stage is marked complete
BypassIn(stages) ==
    /\ (pc \in stages /\ AgentCalled(events'))
            => (Head(events') = "input" /\ Len(typed') >= 1 /\ ~TypedSkip(typed'))
    /\ (pc \in stages /\ TypedSkip(typed'))
            => /\ ~AgentCalled(events')
               /\ calls' = calls
               /\ complete_sections' = Append(complete_sections, StageName(pc))
               /\ pc' \notin {pc, "Error", "elimination"}

\* C12 as stated: inquiry refinement, diagnosis and treatment planning each offer
\* the operator a bypass; a bypass taken means no agent call in the stage and the
\* stage's name appended.
C12_BypassOffered ==
    [][BypassIn({"inquiry_assistance", "diagnosis_assistance", "treatment_plan_creation"})]_vars

\* C12: diagnosis and treatment planning each offer the operator a bypass; a
\* bypass taken means no agent call in the stage and the stage's name appended.
\* A pass of inquiry refinement reads no skip decision: it calls the advisory
\* model first.
C12_BypassOfDiagnosisAndTreatment ==
    [][ /\ BypassIn({"diagnosis_assistance", "treatment_plan_creation"})
        /\ (pc = "inquiry_assistance" /\ pc' = "inquiry_assistance")
            => (typed' = <<>> /\ Head(events') = "llm")
      ]_vars
C12_Witness ==
    /\ pc = "multiagents_report"
    /\ TypedSkip(typed)
    /\ typed[1] = "Q"
    /\ complete_sections = <<"initial_inquiry", "diagnosis", "treatment plan">>
    /\ calls = [a \in Agents |-> IF a = "llm" THEN 1 ELSE 0]

\* C13: a malformed agent output is fatal and is not retried: the step that
\* raises the malformed-output error calls its agent once, appends no section and
\* writes no file, and once the error is raised nothing happens any more: no
\* agent call, no later stage, no section, no file.
C13_MalformedIsFatal ==
    [][ /\ err \notin Malformed
        /\ err' \in Malformed
            => /\ pc' = "Error"
               /\ Cardinality({i \in 1..Len(events') : events'[i] \in Agents}) = 1
               /\ complete_sections' = complete_sections
               /\ files' = files
      ]_vars
C13_Witness ==
    /\ err = "ValueError"
    /\ pc = "Error"
    /\ calls["TreatmentPlanCrew"] = 1
    /\ complete_sections = <<"initial_inquiry", "diagnosis">>
    /\ files = <<>>

\* C14: a completed run has written one treatment-plan file and then one report
\* file.  The plan file holds the raw output of TreatmentPlanCrew, or on the
\* bypass the text the operator typed; the report file holds the raw output of
\* MultiAgentsReportCrew; "treatment plan" is in complete_sections only when the
\* plan file is written.
C14_OnePlanFileThenOneReportFile ==
    /\ [](pc = "Done" => /\ Len(files) = 2
                         /\ files[1].dir = "treatment_plans"
                         /\ files[2].dir = "summary_reports")
    /\ [](Has(complete_sections, "treatment plan")
            => (Len(files) >= 1 /\ files[1].dir = "treatment_plans"))
    /\ [][ /\ (pc = "treatment_plan_creation" /\ pc' # "Error")
               => /\ files' = Append(files,
                        [dir |-> "treatment_plans",
                         content |-> IF TypedSkip(typed') THEN typed'[2] ELSE response'])
                  /\ Count(events', "write") = 1
                  /\ events'[Len(events')] = "write"
           /\ pc = "multiagents_report"
               => /\ files' = Append(files, [dir |-> "summary_reports", content |-> response'])
                  /\ events' = <<"MultiAgentsReportCrew", "write">>
           /\ pc \notin {"treatment_plan_creation", "multiagents_report"} => files' = files
         ]_vars
C14_Witness ==
    /\ pc = "Done"
    /\ calls["TreatmentPlanCrew"] = 1
    /\ files = <<[dir |-> "treatment_plans", content |-> OBJ],
                 [dir |-> "summary_reports", content |-> <<"x">>]>>

C16_EliminationExitsExactlyWhen ==
    [][ /\ (pc = "elimination" /\ pc' # "Error")
            => IF SaidNo(parsed_elimination_result') \/ NoAlternatives(parsed_elimination_result')
               THEN pc' = "diagnosis_return"
               ELSE pc' = "elimination" /\ Has(events', "input")
        /\ pc = "elimination" => Head(events') = PEC
      ]_vars

\* the reply whose alternatives are the remaining ones before the next call
LastDiagnosisReply == IF calls[PEC] = 0 THEN parsed_result ELSE parsed_elimination_result

\* C17: at every call of PossibilitiesEliminationCrew the inputs are the current
\* conclusion and basis, the serialized remaining alternatives, the examination
\* results accumulated in the session, and the most recently recorded pair of
\* suggested_diagnostic_dialectics, or the placeholder when no pair is recorded.
C17_EliminationInputsCurrent ==
    pc = "elimination"
        => /\ EliminationInputs.suggested_question_and_answer
                = LastDialectic(suggested_diagnostic_dialectics)
           /\ EliminationInputs.suggested_auxiliary_check_and_result
                = supplementary_auxiliary_examinations
           /\ EliminationInputs.other_diagnosis_possibility
                = ListStr(Get(LastDiagnosisReply, "other_diagnosis_possibility", <<>>), 1)
           /\ EliminationInputs.diagnosis_conclusion = diagnosis_conclusion
           /\ EliminationInputs.diagnosis_basis = diagnosis_basis

\* C18: at every stage that parses JSON (inquiry refinement, diagnosis,
\* elimination, treatment planning) a response that is a JSON object inside a
\* code fence is accepted as a reply, as the bare object is: it is not rejected
\* as malformed.
C18_FencedObjectAccepted ==
    [][ ( /\ \E a \in Agents \ {"MultiAgentsReportCrew"} : Has(events', a)
          /\ HasAt(response', 1, FENCE)
          /\ JsonKind(clean_and_parse_json(response')) = "object" )
            => err' \notin Malformed
      ]_vars

\* the response of the step parses as a JSON object at its stage
ParsedAsObject(evs, raw) ==
    \/ Has(evs, "llm") /\ InquiryReject(clean_and_parse_json(raw)) = "none"
    \/ /\ \E a \in {"DiagnosisCrew", PEC, "TreatmentPlanCrew"} : Has(evs, a)
       /\ JsonKind(raw) = "object"

\* C19: a reply that parses as a JSON object never aborts its stage, whatever
\* keys it lacks: the stage goes on with the defaults of the absent keys.
C19_MissingKeyNeverAborts ==
    [][ParsedAsObject(events', response') => (pc' # "Error" /\ err' = "none")]_vars

\* the stage a control state belongs to, in the order of the flow
StageOf(at) ==
    CASE at = "get_user_input" -> 1
      [] at = "inquiry_assistance" -> 2
      [] at \in {"diagnosis_assistance", "elimination", "diagnosis_return"} -> 3
      [] at = "treatment_plan_creation" -> 4
      [] at = "multiagents_report" -> 5
      [] at = "Done" -> 6
      [] at = "Error" -> 7
\* the stage an agent is called in
StageOfAgent(a) ==
    CASE a = "llm" -> 2
      [] a \in {"DiagnosisCrew", PEC} -> 3
      [] a = "TreatmentPlanCrew" -> 4
      [] a = "MultiAgentsReportCrew" -> 5

\* C20: the stages start in the order intake, inquiry refinement, diagnosis,
\* treatment planning, report synthesis, each once and when the stage before it
\* has returned; an agent is called in its own stage only; DiagnosisCrew is
\* called once, and PossibilitiesEliminationCrew only after it and before
\* "diagnosis" is appended.
C20_StagesInOrder ==
    [][ /\ pc' # "Error" => StageOf(pc') \in {StageOf(pc), StageOf(pc) + 1}
        /\ \A a \in Agents :
             Has(events', a)
                => /\ StageOf(pc) = StageOfAgent(a)
                   /\ \A b \in Agents : StageOfAgent(b) > StageOfAgent(a) => calls[b] = 0
        /\ Has(events', "DiagnosisCrew") => (calls["DiagnosisCrew"] = 0 /\ calls[PEC] = 0)
        /\ Has(events', PEC)
                => /\ calls["DiagnosisCrew"] = 1
                   /\ ~Has(complete_sections', "diagnosis")
        /\ StageOf(pc') \in 4..6 => Has(complete_sections', "diagnosis")
      ]_vars
C20_Witness ==
    /\ pc = "Done"
    /\ calls = [a \in Agents |-> IF a = PEC THEN 2 ELSE 1]
    /\ complete_sections = <<"initial_inquiry", "diagnosis", "treatment plan">>

IsPrefix(s, t) == Len(s) <= Len(t) /\ SubSeq(t, 1, Len(s)) = s

\* C21: complete_sections is append-only: in every step of every stage the
\* value before the step is a prefix of the value after it.
C21_SectionsAppendOnly ==
    [][ /\ IsPrefix(complete_sections, complete_sections')
        /\ Len(complete_sections') <= Len(complete_sections) + 1
      ]_vars
C21_Witness ==
    /\ pc = "Done"
    /\ complete_sections = <<"diagnosis", "treatment plan">>
    /\ Len(files) = 2

\* C22: in every state where TreatmentPlanCrew has been called or
\* treatment_plan is not empty, diagnosis_result holds a conclusion and a basis.
C22_DiagnosisBeforeTreatment ==
    (calls["TreatmentPlanCrew"] > 0 \/ DOMAIN treatment_plan # {})
        => {"diagnosis_conclusion", "diagnosis_basis"} \subseteq DOMAIN diagnosis_result
C22_Witness ==
    /\ calls["TreatmentPlanCrew"] = 1
    /\ calls["DiagnosisCrew"] = 0
    /\ treatment_plan = [plan |-> "tp1"]
    /\ diagnosis_result = [diagnosis_conclusion |-> "manual dx", diagnosis_basis |-> ""]

\* a dict without the entry of key k
Without(d, k) == [x \in (DOMAIN d) \ {k} |-> d[x]]
\* the entry of key k is the same in d and e (present in both or in neither)
SameAt(d, e, k) == (k \in DOMAIN d <=> k \in DOMAIN e) /\ (k \in DOMAIN d => d[k] = e[k])
AllEmpty(lines) == \A i \in 1..Len(lines) : lines[i] = ""

\* C23: an empty answer records nothing: an empty line at a supplementary
\* question, at the suggested question or at an examination prompt leaves the
\* entry it would fill as it was, and a step whose answers are all empty leaves
\* supplementary_inquiries (but for the analysis the pass itself stores),
\* suggested_diagnostic_dialectics and supplementary_auxiliary_examinations
\* unchanged.
C23_EmptyAnswerRecordsNothing ==
    [][ /\ (Len(answered') > 0 /\ AllEmpty(answered'))
            => /\ Without(supplementary_inquiries', "inquiry_analysis")
                    = Without(supplementary_inquiries, "inquiry_analysis")
               /\ suggested_diagnostic_dialectics' = suggested_diagnostic_dialectics
               /\ supplementary_auxiliary_examinations' = supplementary_auxiliary_examinations
        /\ pc = "inquiry_assistance"
            => \A i \in 1..Len(answered') :
                 answered'[i] = ""
                    => SameAt(supplementary_inquiries, supplementary_inquiries',
                              supplemetary_inquiry_dict'["supplementary_inquiries"][i])
        /\ (pc = "diagnosis_assistance" /\ Len(answered') > 0)
            => /\ answered'[1] = ""
                    => suggested_diagnostic_dialectics' = suggested_diagnostic_dialectics
               /\ \A i \in 2..Len(answered') :
                    answered'[i] = ""
                       => SameAt(supplementary_auxiliary_examinations,
                                 supplementary_auxiliary_examinations',
                                 Get(parsed_result'["suggested_auxiliary_examinations"][i - 1],
                                     "examination_name", "no examination item"))
        /\ (pc = "elimination" /\ Len(answered') > 0)
            => /\ answered'[Len(answered')] = ""
                    => suggested_diagnostic_dialectics' = suggested_diagnostic_dialectics
               /\ \A i \in 1..(Len(answered') - 1) :
                    answered'[i] = ""
                       => SameAt(supplementary_auxiliary_examinations,
                                 supplementary_auxiliary_examinations',
                                 parsed_elimination_result'["suggested_auxiliary_check"][i])
      ]_vars
C23_Witness ==
    /\ pc = "elimination"
    /\ calls[PEC] = 1
    /\ answered = <<"", "">>
    /\ supplementary_auxiliary_examinations = [MRI |-> "a1"]
    /\ suggested_diagnostic_dialectics = <<>>
    /\ DOMAIN supplementary_inquiries = {"inquiry_analysis"}

\* C24: diagnosis_result is changed by the diagnosis stage only: intake, inquiry
\* refinement, treatment planning and report synthesis leave it as it is, and
\* report synthesis changes no field of the session.
C24_DiagnosisResultOwnedByDiagnosis ==
    [][ /\ StageOf(pc) # 3 => diagnosis_result' = diagnosis_result
        /\ pc = "multiagents_report" => session' = session
      ]_vars
C24_Witness ==
    /\ pc = "Done"
    /\ diagnosis_result = [diagnosis_conclusion |-> "dx2", diagnosis_basis |-> "basis2"]
    /\ treatment_plan = [plan |-> "tp1"]
    /\ Len(files) = 2

\* C25: when the operator enters q at the diagnosis prompt, neither
\* DiagnosisCrew nor PossibilitiesEliminationCrew is called, diagnosis_result is
\* the conclusion and the basis the operator typed, "diagnosis" is appended once,
\* and suggested_diagnostic_dialectics and supplementary_auxiliary_examinations
\* stay as they are.
C25_ManualDiagnosisStored ==
    [][ (pc = "diagnosis_assistance" /\ TypedSkip(typed'))
            => /\ Len(typed') = 3
               /\ ~AgentCalled(events')
               /\ calls' = calls
               /\ calls["DiagnosisCrew"] = 0
               /\ calls[PEC] = 0
               /\ diagnosis_result'
                    = [diagnosis_conclusion |-> typed'[2], diagnosis_basis |-> typed'[3]]
               /\ complete_sections' = Append(complete_sections, "diagnosis")
               /\ Count(complete_sections', "diagnosis") = 1
               /\ suggested_diagnostic_dialectics' = suggested_diagnostic_dialectics
               /\ supplementary_auxiliary_examinations' = supplementary_auxiliary_examinations
               /\ pc' = "treatment_plan_creation"
      ]_vars
C25_Witness ==
    /\ pc = "treatment_plan_creation"
    /\ typed = <<"Q", "manual dx", "manual basis">>
    /\ calls["DiagnosisCrew"] = 0
    /\ calls[PEC] = 0
    /\ diagnosis_result = [diagnosis_conclusion |-> "manual dx", diagnosis_basis |-> "manual basis"]
    /\ complete_sections = <<"initial_inquiry", "diagnosis">>

\* C26: when the raw output of TreatmentPlanCrew is not valid JSON, the stage
\* aborts and has done nothing: treatment_plan is unchanged, no file is written
\* and "treatment plan" is not appended.
C26_PlanParseFailureChangesNothing ==
    [][ (Has(events', "TreatmentPlanCrew") /\ JsonKind(response') = "invalid")
            => /\ pc' = "Error"
               /\ err' = "ValueError"
               /\ session' = session
               /\ files' = files
               /\ ~Has(events', "write")
      ]_vars
C26_Witness ==
    /\ pc = "Error"
    /\ err = "ValueError"
    /\ calls["TreatmentPlanCrew"] = 1
    /\ response = <<"{", "x">>
    /\ treatment_plan = EmptyDict
    /\ files = <<>>
    /\ ~Has(complete_sections, "treatment plan")

\* C27: when TreatmentPlanCrew is called, its suggested_diagnostic_dialectics
\* input is the recorded list of question/answer pairs of the session, and its
\* supplementary_auxiliary_examinations input is the recorded examination
\* results.
C27_TreatmentInputsCarryTheirFields ==
    [][ Has(events', "TreatmentPlanCrew")
            => /\ TreatmentInputs.supplementary_auxiliary_examinations
                    = PyDict(supplementary_auxiliary_examinations)
               /\ TreatmentInputs.suggested_diagnostic_dialectics
                    = PyList(suggested_diagnostic_dialectics)
      ]_vars

====
